---------------------------- MODULE Spec2Model ----------------------------
(***************************************************************************)
(* State-machine model of src/intelligent_scheduler.py: SkillCache,        *)
(* SkillExecutor and IntelligentSkillScheduler.                            *)
(*                                                                         *)
(* A caller is a Python thread.  Its position inside execute /             *)
(* execute_with_fallback is pc[c]; its local variables are fr[c].  The     *)
(* worker of the one-thread pool that execute creates is worker[c].        *)
(* Shared state: skill_registry, cache (SkillCache._cache), stats          *)
(* (SkillExecutor.stats) and the wall clock now (time.time()); and the     *)
(* module global _scheduler, with the count of the instances constructed   *)
(* for it, in global_scheduler.                                            *)
(***************************************************************************)
EXTENDS Integers, Sequences, FiniteSets, TLC

VARIABLES global_scheduler, skill_registry, cache, stats, now, pc, fr,
          worker, ncand, ncalls

vars == <<global_scheduler, skill_registry, cache, stats, now, pc, fr, worker,
          ncand, ncalls>>

---------------------------------------------------------------------------
(* Bounds of the model.                                                    *)

\* Candidates (a primary, a fallback entry, or the skill of a direct execute)
\* that the calls started in one run can come to attempt.
MaxCandidates == 3

\* Calls (execute, execute_with_fallback) started in one run.
MaxCalls == 2

\* Longest fallback_chain a call is given.
MaxChain == 2

\* Largest clock value the model advances to.
MaxTime == 60

---------------------------------------------------------------------------
(* Inputs.                                                                 *)

Callers == {1, 2}

Names == {"A", "B"}

Funcs == {"f1", "f2", "f3"}

\* Python's None.
PyNone == <<"None">>

\* A params value json.dumps cannot serialise (a set, a datetime, ...).
NotSerializable == "<set>"

\* params dicts, as the sequence of their (key, value) items in insertion order.
ParamSet ==
  { <<>>,
    << <<"symbol", "600519">> >>,
    << <<"symbol", NotSerializable>> >> }

\* fallback_chain values: every list of at most MaxChain names.
RECURSIVE SeqsUpTo(_, _)
SeqsUpTo(S, n) ==
  IF n = 0 THEN { <<>> }
  ELSE LET shorter == SeqsUpTo(S, n - 1)
       IN  shorter \cup { Append(s, x) : s \in { q \in shorter : Len(q) = n - 1 }, x \in S }

Chains == SeqsUpTo(Names, MaxChain)

\* (func, level, data_type) triples register_skill is called with.
RegInputs ==
  { <<"f1", 1, "local">>, <<"f2", 2, "stock_price">> }

\* What execute is called with directly.  "local" is in TIMEOUT_CONFIG only,
\* "stock_price" in TTL_CONFIG only.
ExecNames == {"A"}

ExecFuncs == {"f1", "f3"}

ExecTypes == {"local", "stock_price"}

\* timeout: Optional[int], <<>> for None and <<n>> for the int n.
TimeoutArgs == { <<>>, <<0>>, <<2>> }

\* The calls the threads of a multi-threaded program make between them.
MaxThreadCalls == 3

\* What a thread calls execute with: one skill name and one params dict, so
\* that the threads meet on one fingerprint, and either fetcher.
ThreadFuncs == {"f1", "f2"}

\* Instants the clock is observed at, besides the deadlines of timed waits:
\* at 60 a stock_price entry written at 0 has expired.
TimePoints == {60}

\* What the cache's own operations are called with.  The two two-key dicts
\* have the same items, inserted in opposite orders.  "default" is in no
\* table.  The instants reach the ages 60 and 61, 300, and 86400 and 86401 of
\* an entry written at 0.
CacheNames == {"A"}

CacheParams ==
  { <<>>,
    << <<"a", "1">>, <<"b", "2">> >>,
    << <<"b", "2">>, <<"a", "1">> >>,
    << <<"symbol", NotSerializable>> >> }

CachePayloads == { PyNone, <<"data", "f1", <<>>>>, <<"data", "f2", <<>>>> }

CacheTypes == {"stock_price", "default"}

CacheTimePoints == {60, 61, 300, 86400, 86401}

---------------------------------------------------------------------------
(* SkillCache.                                                             *)

TTL_CONFIG ==
  [ stock_price |-> 60, stock_info |-> 3600, web_page |-> 300, news |-> 600,
    search_result |-> 1800, analysis_report |-> 86400,
    technical_indicators |-> 300 ]

\* TtlOfDefault is the variant in which every data type has the default TTL.
TtlOfDefault(data_type) == 300

\* self.TTL_CONFIG.get(data_type, 300)
TtlOf(data_type) ==
  IF data_type \in DOMAIN TTL_CONFIG THEN TTL_CONFIG[data_type] ELSE 300

\* Python's ordering of the str keys that occur in ParamSet.
KeyRank(k) == CASE k = "a" -> 1 [] k = "b" -> 2 [] k = "symbol" -> 3

\* A dump without sort_keys: the items in insertion order.
SortKeysNot(items) == items

\* sort_keys=True: insertion sort of the items by key.
RECURSIVE SortKeys(_)
SortKeys(items) ==
  IF items = <<>> THEN <<>>
  ELSE LET rest == SortKeys(Tail(items))
           x    == Head(items)
           lo   == SelectSeq(rest, LAMBDA y : KeyRank(y[1]) < KeyRank(x[1]))
           hi   == SelectSeq(rest, LAMBDA y : ~(KeyRank(y[1]) < KeyRank(x[1])))
       IN  lo \o <<x>> \o hi

\* json.dumps raises TypeError on a value it cannot serialise.
Serializable(params) == \A i \in 1..Len(params) : params[i][2] # NotSerializable

\* json.dumps(params, sort_keys=True), as the text's tokens.
RECURSIVE JsonItems(_)
JsonItems(items) ==
  IF items = <<>> THEN <<>>
  ELSE <<"\"", Head(items)[1], "\": \"", Head(items)[2], "\"">>
       \o (IF Len(items) > 1 THEN <<", ">> ELSE <<>>)
       \o JsonItems(Tail(items))

JsonDumps(params) == <<"{">> \o JsonItems(SortKeys(params)) \o <<"}">>

\* SkillCache_generate_keyParamsOnly is the variant that leaves the skill
\* name out of the fingerprint.
SkillCache_generate_keyParamsOnly(skill_name, params) ==
  [md5 |-> <<":">> \o JsonDumps(params)]

\* _generate_key: md5 of f"{skill_name}:{json.dumps(params, sort_keys=True)}".
\* The digest is kept as the text it is the digest of (md5 taken to be
\* collision-free on the model's inputs).
SkillCache_generate_key(skill_name, params) ==
  [md5 |-> <<skill_name, ":">> \o JsonDumps(params)]

\* A get that leaves an expired entry where it is.
SkillCache_getKeeping(c, skill_name, params, data_type, t) ==
  LET key == SkillCache_generate_key(skill_name, params)
  IN  IF key \in DOMAIN c /\ t - c[key].timestamp < TtlOf(data_type)
      THEN [value |-> c[key].data, cache |-> c]
      ELSE [value |-> PyNone, cache |-> c]

\* SkillCache.get: the value returned and the cache it leaves.
SkillCache_get(c, skill_name, params, data_type, t) ==
  LET key == SkillCache_generate_key(skill_name, params)
  IN  IF key \in DOMAIN c
      THEN IF t - c[key].timestamp < TtlOf(data_type)
           THEN [value |-> c[key].data, cache |-> c]
           ELSE [value |-> PyNone,
                 cache |-> [k \in DOMAIN c \ {key} |-> c[k]]]
      ELSE [value |-> PyNone, cache |-> c]

\* A set that keeps the entry a fingerprint already has.
SkillCache_setDefault(c, skill_name, params, data, t) ==
  LET key == SkillCache_generate_key(skill_name, params)
  IN  [k \in DOMAIN c \cup {key} |->
         IF k \in DOMAIN c THEN c[k] ELSE [data |-> data, timestamp |-> t]]

\* SkillCache_setSkipNone is the variant that does not store a None payload.
SkillCache_setSkipNone(c, skill_name, params, data, t) ==
  LET key == SkillCache_generate_key(skill_name, params)
  IN  IF data = PyNone THEN c
      ELSE [k \in DOMAIN c \cup {key} |->
              IF k = key THEN [data |-> data, timestamp |-> t] ELSE c[k]]

\* SkillCache.set: self._cache[key] = (data, time.time())
SkillCache_set(c, skill_name, params, data, t) ==
  LET key == SkillCache_generate_key(skill_name, params)
  IN  [k \in DOMAIN c \cup {key} |->
         IF k = key THEN [data |-> data, timestamp |-> t] ELSE c[k]]

\* A sweep that drops what the shortest TTL has expired.
SkillCache_clear_expiredByTtl(c, t) ==
  [k \in {x \in DOMAIN c : ~(t - c[x].timestamp >= 60)} |-> c[k]]

\* SkillCache.clear_expired: drops the entries older than one day.
SkillCache_clear_expired(c, t) ==
  [k \in {x \in DOMAIN c : ~(t - c[x].timestamp > 86400)} |-> c[k]]

---------------------------------------------------------------------------
(* SkillExecutor: configuration, results, and what a skill function does.  *)

TIMEOUT_CONFIG ==
  [ local |-> 2, file |-> 3, web_fetch |-> 10, web_search |-> 15,
    browser |-> 30, ai |-> 60 ]

\* A lookup that gives every data type the default budget.
TimeoutOfDefault(data_type) == 10

\* self.TIMEOUT_CONFIG.get(data_type, 10)
TimeoutOf(data_type) ==
  IF data_type \in DOMAIN TIMEOUT_CONFIG THEN TIMEOUT_CONFIG[data_type] ELSE 10

\* timeout = timeout or self.TIMEOUT_CONFIG.get(data_type, 10): None and 0 are
\* both falsy.
EffectiveTimeout(timeout, data_type) ==
  IF timeout = <<>> \/ timeout[1] = 0 THEN TimeoutOf(data_type) ELSE timeout[1]

\* str(n) for a natural number, as its digits.
DigitChar == <<"0", "1", "2", "3", "4", "5", "6", "7", "8", "9">>

RECURSIVE IntToStr(_)
IntToStr(n) ==
  IF n < 10 THEN <<DigitChar[n + 1]>>
  ELSE IntToStr(n \div 10) \o <<DigitChar[(n % 10) + 1]>>

\* f"Timeout after {timeout}s"
TimeoutText(n) == <<"Timeout after ">> \o IntToStr(n) \o <<"s">>

\* f"Skill {skill_name} not registered"
NotRegisteredText(skill_name) == <<"Skill ", skill_name, " not registered">>

\* repr of a list of str: ['B', 'C']
RECURSIVE ReprItems(_)
ReprItems(names) ==
  IF names = <<>> THEN <<>>
  ELSE <<"'", Head(names), "'">>
       \o (IF Len(names) > 1 THEN <<", ">> ELSE <<>>)
       \o ReprItems(Tail(names))

ListRepr(names) == <<"[">> \o ReprItems(names) \o <<"]">>

\* An error text that names the primary alone.
AllFailedTextPrimaryOnly(primary_skill, fallback_chain) ==
  <<"All skills failed: ", primary_skill>>

\* f"All skills failed: {primary_skill}, {fallback_chain}"
AllFailedText(primary_skill, fallback_chain) ==
  <<"All skills failed: ", primary_skill, ", ">> \o ListRepr(fallback_chain)

\* The result dicts.  keys is the set of keys the dict has; a field outside
\* keys holds a filler.  ResultHitAsLive is a cache-hit return that reports a
\* live call; ResultErrorGeneric an error return that drops str(e);
\* ResultNotRegisteredOk a NotRegistered return that reports success.
ResultHitAsLive(data, elapsed) ==
  [ success |-> TRUE, data |-> data, from_cache |-> FALSE, cost |-> 1,
    time |-> elapsed, error |-> <<>>,
    keys |-> {"success", "data", "from_cache", "cost", "time"} ]

ResultHit(data, elapsed) ==
  [ success |-> TRUE, data |-> data, from_cache |-> TRUE, cost |-> 0,
    time |-> elapsed, error |-> <<>>,
    keys |-> {"success", "data", "from_cache", "cost", "time"} ]

ResultLive(data, elapsed) ==
  [ success |-> TRUE, data |-> data, from_cache |-> FALSE, cost |-> 1,
    time |-> elapsed, error |-> <<>>,
    keys |-> {"success", "data", "from_cache", "cost", "time"} ]

ResultErrorGeneric(error, elapsed) ==
  [ success |-> FALSE, data |-> PyNone, from_cache |-> FALSE, cost |-> 1,
    time |-> elapsed, error |-> <<"Execution failed">>,
    keys |-> {"success", "error", "cost", "time"} ]

ResultError(error, elapsed) ==
  [ success |-> FALSE, data |-> PyNone, from_cache |-> FALSE, cost |-> 1,
    time |-> elapsed, error |-> error,
    keys |-> {"success", "error", "cost", "time"} ]

ResultNotRegisteredOk(skill_name) ==
  [ success |-> TRUE, data |-> PyNone, from_cache |-> FALSE, cost |-> 0,
    time |-> 0, error |-> <<"Skill ", skill_name, " not registered">>,
    keys |-> {"success", "error"} ]

ResultNotRegistered(skill_name) ==
  [ success |-> FALSE, data |-> PyNone, from_cache |-> FALSE, cost |-> 0,
    time |-> 0, error |-> NotRegisteredText(skill_name),
    keys |-> {"success", "error"} ]

ResultAllFailed(primary_skill, fallback_chain) ==
  [ success |-> FALSE, data |-> PyNone, from_cache |-> FALSE, cost |-> 0,
    time |-> 0, error |-> AllFailedText(primary_skill, fallback_chain),
    keys |-> {"success", "error", "data"} ]

NoResult ==
  [ success |-> FALSE, data |-> PyNone, from_cache |-> FALSE, cost |-> 0,
    time |-> 0, error |-> <<>>, keys |-> {} ]

\* What func(**params) can do.  f1 is a fetcher that returns its payload or
\* raises an Exception.  f2 is a price provider as get_sina_stock_price is: it
\* catches every exception of its own and returns either the quote or the
\* dict {"error": ...}.  f3 returns None or raises the exception class that
\* FutureTimeoutError names (the builtin TimeoutError since Python 3.11).
\* How long a function takes, and whether it ends at all, is the worker's
\* scheduling.
FuncData(func, params) == <<"data", func, params>>

\* The provider's {"error": ...} return value.
ErrorValue(func) == <<"error", func>>

IsErrorValue(data) == data[1] = "error"

Returns(data) == [kind |-> "return", data |-> data, exc |-> "", msg |-> <<>>]

Raises(exc, msg) == [kind |-> "raise", data |-> PyNone, exc |-> exc, msg |-> msg]

Outcomes(func, params) ==
  CASE func = "f3" ->
         { Returns(PyNone), Raises("TimeoutError", <<"timed out">>) }
    [] func = "f2" ->
         { Returns(FuncData(func, params)), Returns(ErrorValue(func)) }
    [] OTHER ->
         { Returns(FuncData(func, params)), Raises("Exception", <<func, " failed">>) }

NoOutcome == [kind |-> "none", data |-> PyNone, exc |-> "", msg |-> <<>>]

---------------------------------------------------------------------------
(* State.                                                                  *)

\* An empty dict.
NoEntries == [k \in {} |-> k]

\* A caller's locals.  op is the entry point it called; i is the position in
\* the fallback loop (0: the primary).  log, tried, arg_timeout, stats0,
\* cache0 and prev record the call's history: the cache checks, submissions,
\* outcomes and timed-out waits in order, each candidate's result, the timeout
\* argument as given, stats and cache as the call found them, and the
\* caller's previous call.
IdleFrame ==
  [ op |-> "none", primary_skill |-> "", fallback_chain |-> <<>>,
    params |-> <<>>, i |-> 0, skill_name |-> "", func |-> "",
    data_type |-> "", timeout |-> <<>>, start_time |-> 0, deadline |-> 0,
    data |-> PyNone, error |-> <<>>, reg |-> 0, result |-> NoResult,
    done |-> "none", exc |-> "", end_time |-> 0, log |-> <<>>, tried |-> <<>>,
    stats0 |-> [total_calls |-> 0, cache_hits |-> 0,
                fallback_triggers |-> 0, errors |-> 0],
    cache0 |-> NoEntries, arg_timeout |-> <<>>,
    prev |-> [ skill_name |-> "", params |-> <<>>, data_type |-> "",
               live |-> FALSE, data |-> PyNone, end_time |-> 0 ] ]

IdleWorker == [state |-> "none", outcome |-> NoOutcome]

\* IntelligentSkillScheduler.__init__, SkillExecutor.__init__,
\* SkillCache.__init__; no caller is in a call.  The module has been
\* imported: _scheduler = None (ref 0), and get_scheduler has constructed no
\* instance.
Init ==
  /\ global_scheduler = [ref |-> 0, created |-> 0]
  /\ skill_registry = NoEntries
  /\ cache = NoEntries
  /\ stats = [total_calls |-> 0, cache_hits |-> 0,
              fallback_triggers |-> 0, errors |-> 0]
  /\ now = 0
  /\ pc = [c \in Callers |-> "idle"]
  /\ fr = [c \in Callers |-> IdleFrame]
  /\ worker = [c \in Callers |-> IdleWorker]
  /\ ncand = 0
  /\ ncalls = 0

\* The elapsed time a result reports.
Elapsed(c) == now - fr[c].start_time

\* A loop that walks the fallback chain from its end.
CandidateReversed(f) ==
  IF f.i = 0 THEN f.primary_skill
  ELSE f.fallback_chain[Len(f.fallback_chain) + 1 - f.i]

\* The candidate the fallback loop is at.
Candidate(f) ==
  IF f.i = 0 THEN f.primary_skill ELSE f.fallback_chain[f.i]

\* An entry of the call's history: what happened, to the candidate at which
\* position (0: the primary, or the skill of a direct execute), of which name.
Event(what, f) == [ev |-> what, pos |-> f.i, name |-> f.skill_name]

\* What a new execute keeps of the caller's previous one: its arguments,
\* whether it ended in a live success, the payload, and the instant it
\* returned at.
Summary(f, t) ==
  [ skill_name |-> f.skill_name, params |-> f.params, data_type |-> f.data_type,
    live |-> f.done = "return" /\ f.result.success /\ ~f.result.from_cache,
    data |-> f.result.data, end_time |-> t ]

---------------------------------------------------------------------------
(* How a call ends or hands a result on.                                   *)

\* execute / _execute_skill returns result: to the caller of execute, or into
\* execute_with_fallback's test of result["success"].
Deliver(c, result, f) ==
  IF f.op = "execute"
  THEN /\ pc' = [pc EXCEPT ![c] = "idle"]
       /\ fr' = [fr EXCEPT ![c] = [f EXCEPT !.result = result, !.done = "return",
                                            !.end_time = now]]
  ELSE /\ pc' = [pc EXCEPT ![c] = "ewf_check"]
       /\ fr' = [fr EXCEPT ![c] =
                   [f EXCEPT !.result = result,
                             !.tried = Append(@, [name |-> Candidate(f),
                                                  result |-> result])]]

\* An exception no handler of this module catches leaves the call.
Escape(c, exc, f) ==
  /\ pc' = [pc EXCEPT ![c] = "idle"]
  /\ fr' = [fr EXCEPT ![c] = [f EXCEPT !.done = "raise", !.exc = exc,
                                       !.end_time = now]]

---------------------------------------------------------------------------
(* Operations.                                                             *)

\* RegisterSkillInvalidating is the variant of register_skill that drops the
\* cache with the registration.
RegisterSkillInvalidating(c, name, func, level, data_type) ==
  /\ pc[c] = "idle"
  /\ fr' = [fr EXCEPT ![c] = IdleFrame]
  /\ skill_registry' =
       [n \in DOMAIN skill_registry \cup {name} |->
          IF n = name
          THEN [func |-> func, level |-> level, data_type |-> data_type]
          ELSE skill_registry[n]]
  /\ cache' = NoEntries
  /\ UNCHANGED <<global_scheduler, stats, now, pc, worker, ncand, ncalls>>

\* register_skill(name, func, level, data_type).  The caller has moved on
\* from its last call: that call's locals and result are gone.
RegisterSkill(c, name, func, level, data_type) ==
  /\ pc[c] = "idle"
  /\ fr' = [fr EXCEPT ![c] = IdleFrame]
  /\ skill_registry' =
       [n \in DOMAIN skill_registry \cup {name} |->
          IF n = name
          THEN [func |-> func, level |-> level, data_type |-> data_type]
          ELSE skill_registry[n]]
  /\ UNCHANGED <<global_scheduler, cache, stats, now, pc, worker, ncand, ncalls>>

\* A caller enters execute_with_fallback(primary_skill, fallback_chain, params).
CallExecuteWithFallback(c, primary_skill, fallback_chain, params) ==
  /\ pc[c] = "idle"
  /\ ncalls < MaxCalls
  /\ ncand + 1 + Len(fallback_chain) <= MaxCandidates
  /\ ncalls' = ncalls + 1
  /\ ncand' = ncand + 1 + Len(fallback_chain)
  /\ pc' = [pc EXCEPT ![c] = "resolve"]
  /\ fr' = [fr EXCEPT ![c] =
              [IdleFrame EXCEPT !.op = "ewf", !.primary_skill = primary_skill,
                                !.fallback_chain = fallback_chain,
                                !.params = params,
                                !.stats0 = stats, !.cache0 = cache]]
  /\ UNCHANGED <<global_scheduler, skill_registry, cache, stats, now, worker>>

\* A caller enters execute(skill_name, func, params, data_type, timeout).
CallExecute(c, skill_name, func, params, data_type, timeout) ==
  /\ pc[c] = "idle"
  /\ ncalls < MaxCalls
  /\ ncand < MaxCandidates
  /\ ncalls' = ncalls + 1
  /\ ncand' = ncand + 1
  /\ pc' = [pc EXCEPT ![c] = "ex_get"]
  /\ fr' = [fr EXCEPT ![c] =
              [IdleFrame EXCEPT !.op = "execute", !.skill_name = skill_name,
                                !.func = func, !.params = params,
                                !.data_type = data_type, !.timeout = timeout,
                                !.arg_timeout = timeout,
                                !.prev = Summary(fr[c], fr[c].end_time),
                                !.stats0 = stats, !.cache0 = cache]]
  /\ UNCHANGED <<global_scheduler, skill_registry, cache, stats, now, worker>>

\* A thread enters execute("A", func, {}, "local").
ThreadExecute(c, func) ==
  /\ pc[c] = "idle"
  /\ ncalls < MaxThreadCalls
  /\ ncalls' = ncalls + 1
  /\ pc' = [pc EXCEPT ![c] = "ex_get"]
  /\ fr' = [fr EXCEPT ![c] =
              [IdleFrame EXCEPT !.op = "execute", !.skill_name = "A",
                                !.func = func, !.params = <<>>,
                                !.data_type = "local",
                                !.stats0 = stats, !.cache0 = cache]]
  /\ UNCHANGED <<global_scheduler, skill_registry, cache, stats, now, worker, ncand>>

\* _execute_skill(skill_name, params) up to its call of execute.
\* What _execute_skill takes from a skill's registration and hands to
\* execute: the function and the data type.  SkillArgsByLevel is the variant
\* in which a skill registered above level 1 is run as data type "default".
SkillArgsByLevel(registry, name) ==
  [ func      |-> registry[name].func,
    data_type |-> IF registry[name].level > 1 THEN "default"
                  ELSE registry[name].data_type ]

SkillArgs(registry, name) ==
  [ func      |-> registry[name].func,
    data_type |-> registry[name].data_type ]

ExecuteSkill(c) ==
  /\ pc[c] = "resolve"
  /\ LET f    == fr[c]
         name == Candidate(f)
     IN  IF name \notin DOMAIN skill_registry
         THEN Deliver(c, ResultNotRegistered(name), f)
         ELSE /\ pc' = [pc EXCEPT ![c] = "ex_get"]
              /\ fr' = [fr EXCEPT ![c] =
                          [f EXCEPT !.skill_name = name,
                                    !.func = SkillArgs(skill_registry, name).func,
                                    !.data_type = SkillArgs(skill_registry, name).data_type,
                                    !.timeout = <<>>]]
  /\ UNCHANGED <<global_scheduler, skill_registry, cache, stats, now, worker, ncand, ncalls>>

\* execute: start_time, the cache check, and on a miss the submission of
\* func(**params) to the one-thread pool.
ExecuteCacheCheck(c) ==
  /\ pc[c] = "ex_get"
  /\ LET f == fr[c]
     IN  IF ~Serializable(f.params)
         THEN \* json.dumps raises TypeError in _generate_key, outside the try
              /\ Escape(c, "TypeError", [f EXCEPT !.start_time = now])
              /\ UNCHANGED <<cache, worker>>
         ELSE LET g == SkillCache_get(cache, f.skill_name, f.params, f.data_type, now)
                  f1 == [f EXCEPT !.start_time = now,
                                  !.log = Append(@, Event("check", f))]
              IN  /\ cache' = g.cache
                  /\ IF g.value # PyNone
                     THEN /\ pc' = [pc EXCEPT ![c] = "hit_load"]
                          /\ fr' = [fr EXCEPT ![c] =
                                      [f1 EXCEPT !.data = g.value,
                                                 !.log = Append(@, Event("hit", f))]]
                          /\ UNCHANGED worker
                     ELSE LET n == EffectiveTimeout(f.timeout, f.data_type)
                          IN  /\ pc' = [pc EXCEPT ![c] = "ex_wait"]
                              /\ fr' = [fr EXCEPT ![c] =
                                          [f1 EXCEPT !.timeout = <<n>>,
                                                     !.deadline = now + n,
                                                     !.log = Append(@, Event("invoke", f))]]
                              /\ worker' = [worker EXCEPT ![c] =
                                              [state |-> "running", outcome |-> NoOutcome]]
  /\ UNCHANGED <<global_scheduler, skill_registry, stats, now, ncand, ncalls>>

\* The worker thread: func(**params) ends, with one of its outcomes.
WorkerFinish(c, o) ==
  /\ worker[c].state = "running"
  /\ o \in Outcomes(fr[c].func, fr[c].params)
  /\ worker' = [worker EXCEPT ![c] = [state |-> "done", outcome |-> o]]
  /\ UNCHANGED <<global_scheduler, skill_registry, cache, stats, now, pc, fr, ncand, ncalls>>

\* future.result(timeout) finds the future finished: it returns the payload or
\* re-raises what func raised.  The with block's exit has no worker to wait for.
FutureResult(c) ==
  /\ pc[c] = "ex_wait"
  /\ worker[c].state = "done"
  /\ LET f == fr[c]
         o == worker[c].outcome
     IN  CASE o.kind = "return" ->
                /\ pc' = [pc EXCEPT ![c] = "ex_set"]
                /\ fr' = [fr EXCEPT ![c] = [f EXCEPT !.data = o.data,
                                                     !.log = Append(@, Event("returned", f))]]
           [] o.kind = "raise" /\ o.exc = "TimeoutError" ->
                \* except FutureTimeoutError
                /\ pc' = [pc EXCEPT ![c] = "err_load"]
                /\ fr' = [fr EXCEPT ![c] = [f EXCEPT !.error = TimeoutText(f.timeout[1]),
                                                     !.log = Append(@, Event("raised TimeoutError", f))]]
           [] o.kind = "raise" /\ o.exc = "Exception" ->
                \* except Exception as e: str(e)
                /\ pc' = [pc EXCEPT ![c] = "err_load"]
                /\ fr' = [fr EXCEPT ![c] = [f EXCEPT !.error = o.msg,
                                                     !.log = Append(@, Event("raised Exception", f))]]
  /\ worker' = [worker EXCEPT ![c] = IdleWorker]
  /\ UNCHANGED <<global_scheduler, skill_registry, cache, stats, now, ncand, ncalls>>

\* future.result(timeout) raises FutureTimeoutError: the deadline has passed
\* and the future is not finished.  The exception leaves the with block, whose
\* exit is executor.shutdown(wait=True).
FutureTimeout(c) ==
  /\ pc[c] = "ex_wait"
  /\ worker[c].state = "running"
  /\ now >= fr[c].deadline
  /\ pc' = [pc EXCEPT ![c] = "ex_shutdown"]
  /\ fr' = [fr EXCEPT ![c] =
              [@ EXCEPT !.error = TimeoutText(fr[c].timeout[1]),
                        !.log = Append(@, Event("timeout", fr[c]))]]
  /\ UNCHANGED <<global_scheduler, skill_registry, cache, stats, now, worker, ncand, ncalls>>

\* ThreadPoolExecutor.__exit__: shutdown(wait=True) joins the worker thread, so
\* it returns only once func has ended; what func returned or raised is dropped.
ShutdownWait(c) ==
  /\ pc[c] = "ex_shutdown"
  /\ worker[c].state = "done"
  /\ worker' = [worker EXCEPT ![c] = IdleWorker]
  /\ pc' = [pc EXCEPT ![c] = "err_load"]
  /\ UNCHANGED <<global_scheduler, skill_registry, cache, stats, now, fr, ncand, ncalls>>

\* self.cache.set(skill_name, params, data).  The history notes whether the
\* fingerprint had an entry when the write was made.
ExecuteCacheSet(c) ==
  /\ pc[c] = "ex_set"
  /\ cache' = SkillCache_set(cache, fr[c].skill_name, fr[c].params, fr[c].data, now)
  /\ pc' = [pc EXCEPT ![c] = "tc_load"]
  /\ fr' = [fr EXCEPT ![c] =
              [@ EXCEPT !.log =
                 Append(@, Event(IF SkillCache_generate_key(fr[c].skill_name,
                                                            fr[c].params)
                                      \in DOMAIN cache
                                 THEN "overwrote" ELSE "stored", fr[c]))]]
  /\ UNCHANGED <<global_scheduler, skill_registry, stats, now, worker, ncand, ncalls>>


\* An increment that counts twice.
StatsStoreTwo(counter, reg) == [stats EXCEPT ![counter] = reg + 2]

\* self.stats[counter] += 1 is a read and a write of the shared dict.
StatsStore(counter, reg) == [stats EXCEPT ![counter] = reg + 1]

\* self.stats["cache_hits"] += 1: the read.
CacheHitsLoad(c) ==
  /\ pc[c] = "hit_load"
  /\ fr' = [fr EXCEPT ![c] = [@ EXCEPT !.reg = stats.cache_hits]]
  /\ pc' = [pc EXCEPT ![c] = "hit_store"]
  /\ UNCHANGED <<global_scheduler, skill_registry, cache, stats, now, worker, ncand, ncalls>>

\* CacheHitsStoreBoth is the variant in which a hit counts as a live call
\* as well.
CacheHitsStoreBoth(c) ==
  /\ pc[c] = "hit_store"
  /\ stats' = [stats EXCEPT !.cache_hits = fr[c].reg + 1,
                            !.total_calls = @ + 1]
  /\ Deliver(c, ResultHit(fr[c].data, Elapsed(c)), fr[c])
  /\ UNCHANGED <<global_scheduler, skill_registry, cache, now, worker, ncand, ncalls>>

\* self.stats["cache_hits"] += 1: the write; then the cache-hit return.
CacheHitsStore(c) ==
  /\ pc[c] = "hit_store"
  /\ stats' = StatsStore("cache_hits", fr[c].reg)
  /\ Deliver(c, ResultHit(fr[c].data, Elapsed(c)), fr[c])
  /\ UNCHANGED <<global_scheduler, skill_registry, cache, now, worker, ncand, ncalls>>

\* self.stats["total_calls"] += 1: the read.
TotalCallsLoad(c) ==
  /\ pc[c] = "tc_load"
  /\ fr' = [fr EXCEPT ![c] = [@ EXCEPT !.reg = stats.total_calls]]
  /\ pc' = [pc EXCEPT ![c] = "tc_store"]
  /\ UNCHANGED <<global_scheduler, skill_registry, cache, stats, now, worker, ncand, ncalls>>

\* self.stats["total_calls"] += 1: the write; then the live return.
TotalCallsStore(c) ==
  /\ pc[c] = "tc_store"
  /\ stats' = StatsStore("total_calls", fr[c].reg)
  /\ Deliver(c, ResultLive(fr[c].data, Elapsed(c)), fr[c])
  /\ UNCHANGED <<global_scheduler, skill_registry, cache, now, worker, ncand, ncalls>>

\* self.stats["errors"] += 1 (either handler): the read.
ErrorsLoad(c) ==
  /\ pc[c] = "err_load"
  /\ fr' = [fr EXCEPT ![c] = [@ EXCEPT !.reg = stats.errors]]
  /\ pc' = [pc EXCEPT ![c] = "err_store"]
  /\ UNCHANGED <<global_scheduler, skill_registry, cache, stats, now, worker, ncand, ncalls>>

\* A handler that returns its error without counting it.
ErrorsStoreUncounted(c) ==
  /\ pc[c] = "err_store"
  /\ Deliver(c, ResultError(fr[c].error, Elapsed(c)), fr[c])
  /\ UNCHANGED <<global_scheduler, skill_registry, cache, stats, now, worker, ncand, ncalls>>

\* self.stats["errors"] += 1: the write; then the handler's return.
ErrorsStore(c) ==
  /\ pc[c] = "err_store"
  /\ stats' = StatsStore("errors", fr[c].reg)
  /\ Deliver(c, ResultError(fr[c].error, Elapsed(c)), fr[c])
  /\ UNCHANGED <<global_scheduler, skill_registry, cache, now, worker, ncand, ncalls>>

\* A scheduler that never takes a candidate's success for an answer.
ReturnsResultNever(result) == FALSE

\* if result["success"]: return result
ReturnsResult(result) == result.success

\* execute_with_fallback after a candidate's result: return it if it
\* succeeded, else enter the loop body for the next fallback, else return
\* the "All skills failed" result.
FallbackCheck(c) ==
  /\ pc[c] = "ewf_check"
  /\ LET f == fr[c]
     IN  IF ReturnsResult(f.result)
         THEN /\ pc' = [pc EXCEPT ![c] = "idle"]
              /\ fr' = [fr EXCEPT ![c] = [f EXCEPT !.done = "return",
                                                   !.end_time = now]]
         ELSE IF f.i < Len(f.fallback_chain)
         THEN /\ pc' = [pc EXCEPT ![c] = "ft_load"]
              /\ fr' = [fr EXCEPT ![c] = [f EXCEPT !.i = f.i + 1]]
         ELSE /\ pc' = [pc EXCEPT ![c] = "idle"]
              /\ fr' = [fr EXCEPT ![c] =
                          [f EXCEPT !.done = "return", !.end_time = now,
                                    !.result = ResultAllFailed(f.primary_skill,
                                                               f.fallback_chain)]]
  /\ UNCHANGED <<global_scheduler, skill_registry, cache, stats, now, worker, ncand, ncalls>>

\* self.executor.stats["fallback_triggers"] += 1: the read.
FallbackTriggersLoad(c) ==
  /\ pc[c] = "ft_load"
  /\ fr' = [fr EXCEPT ![c] = [@ EXCEPT !.reg = stats.fallback_triggers]]
  /\ pc' = [pc EXCEPT ![c] = "ft_store"]
  /\ UNCHANGED <<global_scheduler, skill_registry, cache, stats, now, worker, ncand, ncalls>>

\* self.executor.stats["fallback_triggers"] += 1: the write; then
\* _execute_skill of the fallback.
FallbackTriggersStore(c) ==
  /\ pc[c] = "ft_store"
  /\ stats' = StatsStore("fallback_triggers", fr[c].reg)
  /\ pc' = [pc EXCEPT ![c] = "resolve"]
  /\ UNCHANGED <<global_scheduler, skill_registry, cache, now, fr, worker, ncand, ncalls>>

\* time.time() advances, to an instant of TimePoints or to the deadline of a
\* timed wait.  Time passes between calls and while a caller is blocked on
\* its worker; the statements of a call take none.  A caller in
\* future.result(timeout) whose future is unfinished is woken at its
\* deadline: the clock does not pass it while it waits.
Waiting(c) == pc[c] = "ex_wait" /\ worker[c].state = "running"

Tick(t) ==
  /\ t > now
  /\ t <= MaxTime
  /\ \A c \in Callers : pc[c] \in {"idle", "ex_wait", "ex_shutdown"}
  /\ \A c \in Callers : Waiting(c) => t <= fr[c].deadline
  /\ now' = t
  /\ UNCHANGED <<global_scheduler, skill_registry, cache, stats, pc, fr, worker, ncand, ncalls>>

---------------------------------------------------------------------------
(* The cache's operations, called on their own.  Each runs under the cache's
   lock; the frame keeps the call's arguments, the cache as the call found
   it, and what the call returned.                                         *)

\* What a get keeps of the caller's previous cache operation when that was a
\* set: its arguments, the payload, and the instant it returned at.
CacheSummary(f) ==
  IF f.op = "set" /\ f.done = "return"
  THEN [ skill_name |-> f.skill_name, params |-> f.params,
         data_type |-> f.data_type, live |-> TRUE,
         data |-> f.data, end_time |-> f.end_time ]
  ELSE IdleFrame.prev

\* The frame of a cache operation that has ended.
CacheFrame(op, skill_name, params, data_type, data, serializable) ==
  [IdleFrame EXCEPT !.op = op, !.skill_name = skill_name, !.params = params,
                    !.data_type = data_type, !.data = data,
                    !.start_time = now, !.end_time = now, !.cache0 = cache,
                    !.done = IF serializable THEN "return" ELSE "raise",
                    !.exc = IF serializable THEN "" ELSE "TypeError"]

\* cache.get(skill_name, params, data_type)
CacheGet(c, skill_name, params, data_type) ==
  /\ pc[c] = "idle"
  /\ IF Serializable(params)
     THEN LET g == SkillCache_get(cache, skill_name, params, data_type, now)
          IN  /\ cache' = g.cache
              /\ fr' = [fr EXCEPT ![c] =
                          [CacheFrame("get", skill_name, params, data_type,
                                      g.value, TRUE)
                             EXCEPT !.prev = CacheSummary(fr[c])]]
     ELSE /\ cache' = cache
          /\ fr' = [fr EXCEPT ![c] =
                      CacheFrame("get", skill_name, params, data_type, PyNone, FALSE)]
  /\ UNCHANGED <<global_scheduler, skill_registry, stats, now, pc, worker, ncand, ncalls>>

\* cache.set(skill_name, params, data)
CacheSet(c, skill_name, params, data) ==
  /\ pc[c] = "idle"
  /\ IF Serializable(params)
     THEN /\ cache' = SkillCache_set(cache, skill_name, params, data, now)
          /\ fr' = [fr EXCEPT ![c] =
                      CacheFrame("set", skill_name, params, "", data, TRUE)]
     ELSE /\ cache' = cache
          /\ fr' = [fr EXCEPT ![c] =
                      CacheFrame("set", skill_name, params, "", data, FALSE)]
  /\ UNCHANGED <<global_scheduler, skill_registry, stats, now, pc, worker, ncand, ncalls>>

\* cache.clear_expired()
CacheClearExpired(c) ==
  /\ pc[c] = "idle"
  /\ cache' = SkillCache_clear_expired(cache, now)
  /\ fr' = [fr EXCEPT ![c] = CacheFrame("clear_expired", "", <<>>, "", PyNone, TRUE)]
  /\ UNCHANGED <<global_scheduler, skill_registry, stats, now, pc, worker, ncand, ncalls>>

\* time.time() advances between the cache's operations.
CacheTick(t) ==
  /\ t > now
  /\ now' = t
  /\ UNCHANGED <<global_scheduler, skill_registry, cache, stats, pc, fr, worker, ncand, ncalls>>

---------------------------------------------------------------------------
(* get_scheduler.  An instance is known by the number it was constructed
   as; ref is the instance _scheduler names, 0 for None.                   *)

\* A thread enters get_scheduler().
GetSchedulerCall(c) ==
  /\ pc[c] = "idle"
  /\ ncalls < MaxThreadCalls
  /\ ncalls' = ncalls + 1
  /\ pc' = [pc EXCEPT ![c] = "gs_check"]
  /\ fr' = [fr EXCEPT ![c] = [IdleFrame EXCEPT !.op = "get_scheduler"]]
  /\ UNCHANGED <<global_scheduler, skill_registry, cache, stats, now, worker, ncand>>

\* if _scheduler is None:
GetSchedulerCheck(c) ==
  /\ pc[c] = "gs_check"
  /\ pc' = [pc EXCEPT ![c] = IF global_scheduler.ref = 0 THEN "gs_new"
                             ELSE "gs_return"]
  /\ UNCHANGED <<global_scheduler, skill_registry, cache, stats, now, fr, worker,
                 ncand, ncalls>>

\* IntelligentSkillScheduler(): the right-hand side of the assignment.
GetSchedulerConstruct(c) ==
  /\ pc[c] = "gs_new"
  /\ global_scheduler' = [global_scheduler EXCEPT !.created = @ + 1]
  /\ fr' = [fr EXCEPT ![c] = [@ EXCEPT !.reg = global_scheduler.created + 1]]
  /\ pc' = [pc EXCEPT ![c] = "gs_store"]
  /\ UNCHANGED <<skill_registry, cache, stats, now, worker, ncand, ncalls>>

\* _scheduler = ...: the store to the global.
GetSchedulerStore(c) ==
  /\ pc[c] = "gs_store"
  /\ global_scheduler' = [global_scheduler EXCEPT !.ref = fr[c].reg]
  /\ pc' = [pc EXCEPT ![c] = "gs_return"]
  /\ UNCHANGED <<skill_registry, cache, stats, now, fr, worker, ncand, ncalls>>

\* return _scheduler
GetSchedulerReturn(c) ==
  /\ pc[c] = "gs_return"
  /\ pc' = [pc EXCEPT ![c] = "idle"]
  /\ fr' = [fr EXCEPT ![c] = [@ EXCEPT !.data = <<"scheduler", global_scheduler.ref>>,
                                       !.done = "return"]]
  /\ UNCHANGED <<global_scheduler, skill_registry, cache, stats, now, worker,
                 ncand, ncalls>>

---------------------------------------------------------------------------
(* Specifications.                                                         *)

\* A step of caller c inside SkillExecutor.execute.
ExecutorStep(c) ==
  \/ ExecuteCacheCheck(c)
  \/ \E o \in Outcomes(fr[c].func, fr[c].params) : WorkerFinish(c, o)
  \/ FutureResult(c)
  \/ FutureTimeout(c)
  \/ ShutdownWait(c)
  \/ ExecuteCacheSet(c)
  \/ CacheHitsLoad(c)
  \/ CacheHitsStore(c)
  \/ TotalCallsLoad(c)
  \/ TotalCallsStore(c)
  \/ ErrorsLoad(c)
  \/ ErrorsStore(c)

\* A step of caller c inside execute_with_fallback or _execute_skill.
SchedulerStep(c) ==
  \/ ExecuteSkill(c)
  \/ FallbackCheck(c)
  \/ FallbackTriggersLoad(c)
  \/ FallbackTriggersStore(c)

\* What a user of the scheduler does: register_skill, execute_with_fallback.
SchedulerCall(c) ==
  \/ \E name \in Names, r \in RegInputs : RegisterSkill(c, name, r[1], r[2], r[3])
  \/ \E primary_skill \in Names, fallback_chain \in Chains, params \in ParamSet :
       CallExecuteWithFallback(c, primary_skill, fallback_chain, params)

\* What a user of the executor alone does (as cached_skill does): execute.
ExecutorCall(c) ==
  \E skill_name \in ExecNames, func \in ExecFuncs, params \in ParamSet,
     data_type \in ExecTypes, timeout \in TimeoutArgs :
    CallExecute(c, skill_name, func, params, data_type, timeout)

Deadlines == { fr[c].deadline : c \in { d \in Callers : Waiting(d) } }

ClockStep == \E t \in TimePoints \cup Deadlines : Tick(t)

\* A single-threaded program that uses the scheduler: caller 1 is the only
\* caller.
Next ==
  \/ SchedulerCall(1)
  \/ SchedulerStep(1)
  \/ ExecutorStep(1)
  \/ ClockStep

Spec == Init /\ [][Next]_vars

\* The same program, with the thread always scheduled and every function it
\* submits ending (WorkerFinish is a step of ExecutorStep): a call that can
\* take a step does take one.
SpecFair == Spec /\ WF_vars(SchedulerStep(1) \/ ExecutorStep(1))

\* A single-threaded program that uses the executor directly.
NextExecutor ==
  \/ ExecutorCall(1)
  \/ ExecutorStep(1)
  \/ ClockStep

SpecExecutor == Init /\ [][NextExecutor]_vars

\* A program whose threads share one executor: each caller is a thread, and
\* the threads' steps interleave.
NextThreads ==
  \/ \E c \in Callers, func \in ThreadFuncs : ThreadExecute(c, func)
  \/ \E c \in Callers : ExecutorStep(c)
  \/ ClockStep

SpecThreads == Init /\ [][NextThreads]_vars

\* A program whose threads call get_scheduler().
NextSingleton ==
  \E c \in Callers :
    \/ GetSchedulerCall(c)
    \/ GetSchedulerCheck(c)
    \/ GetSchedulerConstruct(c)
    \/ GetSchedulerStore(c)
    \/ GetSchedulerReturn(c)

SpecSingleton == Init /\ [][NextSingleton]_vars

\* A single-threaded program that uses a SkillCache directly.
NextCache ==
  \/ \E skill_name \in CacheNames, params \in CacheParams, data_type \in CacheTypes :
       CacheGet(1, skill_name, params, data_type)
  \/ \E skill_name \in CacheNames, params \in CacheParams, data \in CachePayloads :
       CacheSet(1, skill_name, params, data)
  \/ CacheClearExpired(1)
  \/ \E t \in CacheTimePoints : CacheTick(t)

SpecCache == Init /\ [][NextCache]_vars

---------------------------------------------------------------------------
(* Properties.  Under Spec and SpecExecutor caller 1 is the only caller.   *)

Range(seq) == { seq[k] : k \in 1..Len(seq) }

\* Caller 1's last call has returned a result (it did not raise).
Returned == pc[1] = "idle" /\ fr[1].done = "return"

\* The candidate at position k of a call's candidates (1: the primary).
CandidateAt(f, k) == IF k = 1 THEN f.primary_skill ELSE f.fallback_chain[k - 1]

\* The positions (1: the primary) of the candidates whose result succeeded.
Succeeded(f) == { k \in 1..Len(f.tried) : f.tried[k].result.success }

\* C1: in an execute_with_fallback call whose primary's execution succeeds
\* (from the cache or live), no fallback entry is resolved, cache-checked or
\* invoked, fallback_triggers stays as the call found it, and the call returns
\* the primary's result.
C1_PrimarySuccessReturnsAtOnce ==
  LET f == fr[1]
  IN  (f.op = "ewf" /\ Len(f.tried) >= 1 /\ f.tried[1].result.success) =>
        /\ pc[1] \in {"ewf_check", "idle"}
        /\ f.i = 0
        /\ Len(f.tried) = 1
        /\ \A k \in 1..Len(f.log) : f.log[k].pos = 0
        /\ Cardinality({ k \in 1..Len(f.log) : f.log[k].ev = "check" }) = 1
        /\ stats.fallback_triggers = f.stats0.fallback_triggers
        /\ pc[1] = "idle" =>
             /\ f.done = "return"
             /\ f.result = f.tried[1].result
             /\ f.result.success

\* C1's case: a call with a non-empty chain returned its primary's cache hit.
C1_Witness ==
  /\ Returned
  /\ fr[1].op = "ewf"
  /\ fr[1].fallback_chain # <<>>
  /\ fr[1].tried[1].result.success
  /\ fr[1].result.from_cache

\* C2: after the primary fails the fallback entries are tried in the order
\* listed; nothing is tried after a success; the call returns the result of
\* the first fallback that succeeds, and no entry after it is resolved,
\* cache-checked or invoked.
C2_FallbackOrderStopsAtFirstSuccess ==
  LET f == fr[1]
      n == Len(f.tried)
  IN  f.op = "ewf" =>
        /\ \A k \in 1..n : f.tried[k].name = CandidateAt(f, k)
        /\ \A k \in 1..(n - 1) : ~f.tried[k].result.success
        /\ \A k \in 1..Len(f.log) :
             /\ f.log[k].pos + 1 <= 1 + Len(f.fallback_chain)
             /\ f.log[k].name = CandidateAt(f, f.log[k].pos + 1)
             /\ \A j \in 1..k : f.log[j].pos <= f.log[k].pos
        /\ (n >= 2 /\ f.tried[n].result.success) =>
             /\ f.i = n - 1
             /\ \A k \in 1..Len(f.log) : f.log[k].pos <= n - 1
             /\ pc[1] \in {"ewf_check", "idle"}
             /\ pc[1] = "idle" => f.done = "return" /\ f.result = f.tried[n].result

\* C2's case: the primary failed, the first of two fallback entries succeeded
\* live, and the call returned.
C2_Witness ==
  /\ Returned
  /\ fr[1].op = "ewf"
  /\ Len(fr[1].fallback_chain) = 2
  /\ Len(fr[1].tried) = 2
  /\ ~fr[1].tried[1].result.success
  /\ fr[1].tried[2].result.success
  /\ \E k \in 1..Len(fr[1].log) : fr[1].log[k].ev = "invoke" /\ fr[1].log[k].pos = 1

\* C3: fallback_triggers goes up by one for each fallback entry the loop
\* enters; a call whose primary fails returns with it raised by the position
\* of the first fallback that succeeded, or by the length of the chain when
\* none did.
C3_FallbackTriggersPerAttempt ==
  LET f == fr[1]
      d == stats.fallback_triggers - f.stats0.fallback_triggers
  IN  f.op = "ewf" =>
        /\ d = IF pc[1] \in {"ft_load", "ft_store"} THEN f.i - 1 ELSE f.i
        /\ (Returned /\ ~f.tried[1].result.success) =>
             d = IF Succeeded(f) # {}
                 THEN (CHOOSE k \in Succeeded(f) : \A j \in Succeeded(f) : k <= j) - 1
                 ELSE Len(f.fallback_chain)

\* C3's case: the primary and the first fallback failed, the second fallback
\* succeeded: fallback_triggers is up by 2.
C3_Witness ==
  /\ Returned
  /\ fr[1].op = "ewf"
  /\ Len(fr[1].tried) = 3
  /\ fr[1].tried[3].result.success
  /\ stats.fallback_triggers = fr[1].stats0.fallback_triggers + 2

\* C4: when the primary and every fallback entry returned a failure, every
\* entry was tried and the call returns success=false with an error text that
\* begins "All skills failed: " and names the primary and every fallback.
C4_AllFailedResult ==
  LET f == fr[1]
  IN  (Returned /\ f.op = "ewf" /\ Succeeded(f) = {}) =>
        /\ Len(f.tried) = 1 + Len(f.fallback_chain)
        /\ ~f.result.success
        /\ f.result.error[1] = "All skills failed: "
        /\ f.primary_skill \in Range(Tail(f.result.error))
        /\ \A j \in 1..Len(f.fallback_chain) :
             f.fallback_chain[j] \in Range(Tail(Tail(f.result.error)))

\* C4's case: primary A and fallback B both failed, B by a timed-out wait.
C4_Witness ==
  /\ Returned
  /\ fr[1].op = "ewf"
  /\ fr[1].primary_skill = "A"
  /\ fr[1].fallback_chain = <<"B">>
  /\ Succeeded(fr[1]) = {}
  /\ \E k \in 1..Len(fr[1].log) : fr[1].log[k].ev = "timeout" /\ fr[1].log[k].pos = 1

\* What happened in caller 1's call, from its history.
Happened(what) == \E k \in 1..Len(fr[1].log) : fr[1].log[k].ev = what

\* The fingerprint caller 1's execute looks up and stores under.
CallKey == SkillCache_generate_key(fr[1].skill_name, fr[1].params)

\* C5: on a cache miss the caller is not kept inside execute past the
\* effective deadline by a worker that is still running.
C5_CallerNotBlockedPastDeadline ==
  ~( /\ fr[1].op = "execute"
     /\ pc[1] = "ex_shutdown"
     /\ worker[1].state = "running"
     /\ now > fr[1].deadline )

\* C6: an execute whose wait for the invocable timed out returns with errors
\* up by one, total_calls and cache_hits as the call found them, and
\* success=false with the error text "Timeout after <n>s", n the explicit
\* timeout when one was given (and is not 0), else the budget of the data
\* type: 2 for "local", 10 for a type TIMEOUT_CONFIG does not list.
C6_TimeoutResult ==
  LET f == fr[1]
      n == IF f.arg_timeout = <<2>> THEN <<"2">>
           ELSE IF f.data_type = "local" THEN <<"2">>
           ELSE <<"1", "0">>
  IN  (Returned /\ f.op = "execute" /\ Happened("timeout")) =>
        /\ stats.errors = f.stats0.errors + 1
        /\ stats.total_calls = f.stats0.total_calls
        /\ stats.cache_hits = f.stats0.cache_hits
        /\ ~f.result.success
        /\ f.result.error = <<"Timeout after ">> \o n \o <<"s">>
        /\ ~Happened("returned")

\* C6's case: a "local" skill with no explicit timeout outlasted its 2 s.
C6_Witness ==
  /\ Returned
  /\ fr[1].op = "execute"
  /\ Happened("timeout")
  /\ fr[1].data_type = "local"
  /\ fr[1].arg_timeout = <<>>
  /\ fr[1].end_time >= fr[1].start_time + 2
  /\ fr[1].result.error = <<"Timeout after ", "2", "s">>

\* C7: an execute that hits the cache returns success=true with the cached
\* payload, from_cache=true and cost 0, with cache_hits up by one; the
\* function is not invoked, and total_calls, errors and the cache are as the
\* call found them.
C7_CacheHitResult ==
  LET f == fr[1]
  IN  (Returned /\ f.op = "execute" /\ Happened("hit")) =>
        /\ f.result.success
        /\ CallKey \in DOMAIN f.cache0
        /\ f.result.data = f.cache0[CallKey].data
        /\ f.result.from_cache
        /\ f.result.cost = 0
        /\ stats = [f.stats0 EXCEPT !.cache_hits = @ + 1]
        /\ ~Happened("invoke")
        /\ cache = f.cache0

\* C7's case: a second execute returned the payload the first one stored.
C7_Witness ==
  /\ Returned
  /\ fr[1].op = "execute"
  /\ Happened("hit")
  /\ fr[1].prev.live
  /\ fr[1].result.data = fr[1].prev.data
  /\ stats.cache_hits = 1

\* C8: an execute that missed the cache and whose invocable completed within
\* the budget has stored the returned payload under the fingerprint of (name,
\* params), raised total_calls by one, and returns success=true,
\* from_cache=false, cost 1 with that payload; and an execute with the same
\* name, params and data type that starts at the instant such a call returned
\* is a cache hit returning the same payload.
C8_LiveResultThenHit ==
  LET f == fr[1]
  IN  /\ (Returned /\ f.op = "execute" /\ Happened("returned")) =>
           /\ CallKey \in DOMAIN cache
           /\ cache[CallKey].data = f.result.data
           /\ f.result.data = (IF f.func = "f3" THEN PyNone
                               ELSE FuncData(f.func, f.params))
           /\ stats = [f.stats0 EXCEPT !.total_calls = @ + 1]
           /\ f.result.success
           /\ ~f.result.from_cache
           /\ f.result.cost = 1
      /\ ( /\ f.op = "execute"
           /\ f.prev.live
           /\ f.prev.skill_name = f.skill_name
           /\ f.prev.params = f.params
           /\ f.prev.data_type = f.data_type
           /\ Len(f.log) >= 1
           /\ f.start_time = f.prev.end_time ) =>
           /\ Happened("hit")
           /\ ~Happened("invoke")
           /\ Returned => /\ f.result.success
                          /\ f.result.from_cache
                          /\ f.result.data = f.prev.data

\* C9 as stated: an execute whose invocable raised a failure other than a
\* timeout returns with errors up by one, total_calls, cache_hits and the
\* cache as the call found them, and success=false with str(e) as error.
C9_ErrorLeavesCacheUnchanged ==
  LET f == fr[1]
  IN  (Returned /\ f.op = "execute" /\ Happened("raised Exception")) =>
        /\ stats = [f.stats0 EXCEPT !.errors = @ + 1]
        /\ cache = f.cache0
        /\ ~f.result.success
        /\ f.result.error = <<f.func, " failed">>

\* C9: an execute whose invocable raised a failure other than a timeout
\* returns with errors up by one, total_calls and cache_hits as the call found
\* them, and success=false with str(e) as error; it has added no cache entry
\* and changed none, and has removed at most the entry under its own
\* fingerprint, and that only if the entry had outlived its data type's TTL
\* when the call looked it up.
C9_ErrorResult ==
  LET f == fr[1]
  IN  (Returned /\ f.op = "execute" /\ Happened("raised Exception")) =>
        /\ stats = [f.stats0 EXCEPT !.errors = @ + 1]
        /\ ~f.result.success
        /\ f.result.error = <<f.func, " failed">>
        /\ \A k \in DOMAIN cache : k \in DOMAIN f.cache0 /\ cache[k] = f.cache0[k]
        /\ \A k \in DOMAIN f.cache0 \ DOMAIN cache :
             /\ k = CallKey
             /\ f.start_time - f.cache0[k].timestamp >=
                  (IF f.data_type = "stock_price" THEN 60 ELSE 300)

\* C9's case: the invocable raised, and the call's lookup had removed the
\* expired entry of an earlier live call.
C9_Witness ==
  /\ Returned
  /\ fr[1].op = "execute"
  /\ Happened("raised Exception")
  /\ fr[1].cache0 # NoEntries
  /\ cache = NoEntries
  /\ stats.errors = 1

\* C10: no call lets an exception escape to its caller; a call that has ended
\* has returned a result dict with a success key.
C10_NoExceptionEscapes ==
  /\ fr[1].done # "raise"
  /\ pc[1] = "idle" /\ fr[1].op # "none" =>
       /\ fr[1].done = "return"
       /\ "success" \in fr[1].result.keys

\* C11: a skill that signals failure, by raising or by returning an error
\* value, is a failed attempt: no candidate's result reports success with an
\* error value as its data or after the function raised, no error value is in
\* the cache, and execute_with_fallback does not return an error value as a
\* success.
C11_SignalledFailureIsFailedAttempt ==
  LET f == fr[1]
  IN  /\ \A key \in DOMAIN cache : ~IsErrorValue(cache[key].data)
      /\ f.op = "ewf" =>
           /\ \A k \in 1..Len(f.tried) :
                f.tried[k].result.success => ~IsErrorValue(f.tried[k].result.data)
           /\ \A k \in 1..Len(f.log) :
                f.log[k].ev = "raised Exception" =>
                  (Len(f.tried) >= f.log[k].pos + 1 =>
                     ~f.tried[f.log[k].pos + 1].result.success)
           /\ Returned /\ f.result.success => ~IsErrorValue(f.result.data)

\* Two params dicts with the same items, whatever the insertion order.
SameContent(p, q) == Range(p) = Range(q)

\* Caller 1's last cache operation, of this kind, has returned.
CacheOp(op) == fr[1].op = op /\ fr[1].done = "return"

\* C12: a set leaves exactly its payload, stamped now, under the fingerprint
\* of (name, params), whatever was there before, and changes no other entry; a
\* get for the same name and params at the instant the set returned, with any
\* data type, returns that payload.
C12_CacheRoundTrip ==
  LET f == fr[1]
  IN  /\ CacheOp("set") =>
           /\ CallKey \in DOMAIN cache
           /\ cache[CallKey] = [data |-> f.data, timestamp |-> f.start_time]
           /\ DOMAIN cache = DOMAIN f.cache0 \cup {CallKey}
           /\ \A k \in DOMAIN f.cache0 \ {CallKey} : cache[k] = f.cache0[k]
      /\ ( /\ CacheOp("get")
           /\ f.prev.live
           /\ f.prev.skill_name = f.skill_name
           /\ f.prev.params = f.params
           /\ f.prev.end_time = f.start_time ) =>
           f.data = f.prev.data

\* C12's case: at 60 a set stored a payload and a stock_price get at that
\* instant returned it.
C12_Witness ==
  /\ CacheOp("get")
  /\ fr[1].prev.live
  /\ fr[1].prev.params = fr[1].params
  /\ fr[1].prev.end_time = fr[1].start_time
  /\ fr[1].data = <<"data", "f2", <<>>>>
  /\ cache[CallKey].timestamp = 60
  /\ fr[1].data_type = "stock_price"

\* C13: get returns the stored payload, and changes nothing, when the entry
\* exists and its age is below the TTL of the data type (60 for
\* "stock_price", 300 for a type TTL_CONFIG does not list); it returns None and
\* removes that entry alone when the entry exists with its age at or above the
\* TTL; it returns None and changes nothing when there is no entry.
C13_LazyExpiry ==
  LET f   == fr[1]
      ttl == IF f.data_type = "stock_price" THEN 60 ELSE 300
  IN  CacheOp("get") =>
        IF CallKey \in DOMAIN f.cache0
        THEN IF f.start_time - f.cache0[CallKey].timestamp < ttl
             THEN f.data = f.cache0[CallKey].data /\ cache = f.cache0
             ELSE /\ f.data = PyNone
                  /\ DOMAIN cache = DOMAIN f.cache0 \ {CallKey}
                  /\ \A k \in DOMAIN cache : cache[k] = f.cache0[k]
        ELSE f.data = PyNone /\ cache = f.cache0

\* C13's case: a stock_price get at age 61 returned None and removed the
\* entry, leaving the other entry in place.
C13_Witness ==
  /\ CacheOp("get")
  /\ fr[1].data_type = "stock_price"
  /\ CallKey \in DOMAIN fr[1].cache0
  /\ fr[1].cache0[CallKey].data # PyNone
  /\ fr[1].start_time - fr[1].cache0[CallKey].timestamp = 61
  /\ fr[1].data = PyNone
  /\ CallKey \notin DOMAIN cache
  /\ cache # NoEntries

\* C14: clear_expired removes exactly the entries older than 86400 s and
\* leaves every other entry as it was, whatever its age against a TTL.
C14_SweepCeiling ==
  LET f == fr[1]
  IN  CacheOp("clear_expired") =>
        /\ DOMAIN cache =
             { k \in DOMAIN f.cache0 : f.start_time - f.cache0[k].timestamp <= 86400 }
        /\ \A k \in DOMAIN cache : cache[k] = f.cache0[k]

\* C14's case: a sweep removed an entry aged 86401 s and kept one aged 86101 s,
\* long expired under every TTL.
C14_Witness ==
  /\ CacheOp("clear_expired")
  /\ \E k \in DOMAIN fr[1].cache0 :
       k \notin DOMAIN cache /\ fr[1].start_time - fr[1].cache0[k].timestamp = 86401
  /\ \E k \in DOMAIN cache : fr[1].start_time - cache[k].timestamp = 86101

\* C15: the fingerprint of (name, params) is the same for every insertion
\* order of the same items: the fingerprint a get or set used is the
\* fingerprint of every dict with the same content, and a get finds what a
\* set with the same name and the same content stored the instant before.
C15_FingerprintDeterminism ==
  LET f == fr[1]
  IN  /\ (CacheOp("get") \/ CacheOp("set")) =>
           \A q \in CacheParams :
             SameContent(f.params, q) =>
               SkillCache_generate_key(f.skill_name, q) = CallKey
      /\ ( /\ CacheOp("get")
           /\ f.prev.live
           /\ f.prev.skill_name = f.skill_name
           /\ SameContent(f.prev.params, f.params)
           /\ f.prev.end_time = f.start_time ) =>
           f.data = f.prev.data

\* C15's case: a get with the keys inserted as b, a returned the payload a
\* set with the keys inserted as a, b had stored.
C15_Witness ==
  /\ CacheOp("get")
  /\ fr[1].prev.live
  /\ fr[1].prev.params = << <<"a", "1">>, <<"b", "2">> >>
  /\ fr[1].params = << <<"b", "2">>, <<"a", "1">> >>
  /\ fr[1].prev.end_time = fr[1].start_time
  /\ fr[1].data = fr[1].prev.data
  /\ fr[1].data # PyNone

\* What happened in thread c's call, from its history.
ThreadDid(c, what) == \E k \in 1..Len(fr[c].log) : fr[c].log[k].ev = what

\* Two calls were made, one by each thread, and both have returned.
OneCallEachDone ==
  /\ ncalls = 2
  /\ \A c \in Callers :
       pc[c] = "idle" /\ fr[c].op = "execute" /\ fr[c].done = "return"

\* C16: no increment is lost: once two threads have each finished one execute
\* on a fresh executor, each counter is the number of those calls that
\* incremented it (cache_hits: the hits, total_calls: the live successes,
\* errors: the failures).
C16_NoLostIncrement ==
  OneCallEachDone =>
    /\ stats.cache_hits =
         Cardinality({ c \in Callers : fr[c].result.from_cache })
    /\ stats.total_calls =
         Cardinality({ c \in Callers :
                         fr[c].result.success /\ ~fr[c].result.from_cache })
    /\ stats.errors = Cardinality({ c \in Callers : ~fr[c].result.success })

\* C17: no step of any interleaving lowers a counter.
C17_CountersNeverDecrease ==
  [][\A k \in DOMAIN stats : stats'[k] >= stats[k]]_vars

\* C19: when two threads have executed the same (name, params) and both
\* performed the live invocation, both invoked their function and wrote the
\* cache, both return success with from_cache=false and their own payload,
\* and the cache holds the payload of the thread whose write came last.
C19_NoSingleFlight ==
  (OneCallEachDone /\ \A c \in Callers : ThreadDid(c, "returned")) =>
    /\ \A c \in Callers :
         /\ ThreadDid(c, "invoke")
         /\ ThreadDid(c, "stored") \/ ThreadDid(c, "overwrote")
         /\ fr[c].result.success
         /\ ~fr[c].result.from_cache
         /\ fr[c].result.data \in
              { <<"data", fr[c].func, <<>>>>, <<"error", fr[c].func>> }
    /\ Cardinality({ c \in Callers : ThreadDid(c, "overwrote") }) = 1
    /\ CallKey \in DOMAIN cache
    /\ \A c \in Callers :
         ThreadDid(c, "overwrote") => cache[CallKey].data = fr[c].result.data

\* C19's case: threads 1 and 2 raced on one miss with different functions;
\* thread 2 wrote first, thread 1 last, and thread 1's payload is the entry.
C19_Witness ==
  /\ OneCallEachDone
  /\ fr[1].func = "f1"
  /\ fr[2].func = "f2"
  /\ ThreadDid(1, "overwrote")
  /\ ThreadDid(2, "stored")
  /\ fr[2].result.success
  /\ ~fr[2].result.from_cache
  /\ cache[CallKey].data = <<"data", "f1", <<>>>>

\* C18: on a fresh scheduler with A registered with data type "local" and B
\* registered, an execute_with_fallback("A", ["B"], {}) in which the wait for
\* A timed out and B's function returned its payload returns success=true
\* and leaves errors = 1, fallback_triggers = 1, cache_hits = 0 and
\* total_calls = 1.
C18_StatsAccountingScenario ==
  LET f == fr[1]
  IN  ( /\ Returned
        /\ f.op = "ewf"
        /\ f.primary_skill = "A"
        /\ f.fallback_chain = <<"B">>
        /\ f.params = <<>>
        /\ f.cache0 = NoEntries
        /\ f.stats0 = [total_calls |-> 0, cache_hits |-> 0,
                       fallback_triggers |-> 0, errors |-> 0]
        /\ "A" \in DOMAIN skill_registry
        /\ skill_registry["A"].data_type = "local"
        /\ \E k \in 1..Len(f.log) : f.log[k].ev = "timeout" /\ f.log[k].pos = 0
        /\ \E k \in 1..Len(f.log) : f.log[k].ev = "returned" /\ f.log[k].pos = 1 ) =>
        /\ f.result.success
        /\ stats = [total_calls |-> 1, cache_hits |-> 0,
                    fallback_triggers |-> 1, errors |-> 1]

\* C18's case: that call has returned B's live payload, after A's 2 s.
C18_Witness ==
  /\ Returned
  /\ fr[1].op = "ewf"
  /\ fr[1].primary_skill = "A"
  /\ fr[1].fallback_chain = <<"B">>
  /\ fr[1].params = <<>>
  /\ fr[1].stats0.errors = 0
  /\ fr[1].cache0 = NoEntries
  /\ {"A", "B"} \subseteq DOMAIN skill_registry
  /\ skill_registry["A"].data_type = "local"
  /\ \E k \in 1..Len(fr[1].log) : fr[1].log[k].ev = "timeout" /\ fr[1].log[k].pos = 0
  /\ fr[1].result.data = <<"data", skill_registry["B"].func, <<>>>>
  /\ ~fr[1].result.from_cache
  /\ fr[1].tried[1].result.error = <<"Timeout after ", "2", "s">>
  /\ stats.errors = 1

\* C20: a candidate whose name is not in the registry is given the result
\* success=false with the error "Skill <name> not registered"; nothing is
\* cache-checked or invoked for it; when it is not the last candidate the
\* scheduler goes on to the next, whose result a call that returns has; a call all of whose candidates are
\* unregistered changes no counter but fallback_triggers.
C20_NotRegisteredIsFailedCandidate ==
  LET f == fr[1]
      n == Len(f.tried)
      unregistered == { k \in 1..n : f.tried[k].name \notin DOMAIN skill_registry }
  IN  f.op = "ewf" =>
        /\ \A k \in unregistered :
             /\ ~f.tried[k].result.success
             /\ f.tried[k].result.error = <<"Skill ", CandidateAt(f, k), " not registered">>
             /\ \A j \in 1..Len(f.log) : f.log[j].pos # k - 1
             /\ (pc[1] = "idle" /\ k < 1 + Len(f.fallback_chain)) => f.i >= k
             /\ (Returned /\ k < 1 + Len(f.fallback_chain)) => n > k
        /\ (Returned /\ unregistered = 1..n) =>
             /\ cache = f.cache0
             /\ stats = [f.stats0 EXCEPT !.fallback_triggers = @ + Len(f.fallback_chain)]

\* C20's case: the primary was not registered, and the call returned the
\* live result of the fallback the scheduler went on to.
C20_Witness ==
  /\ Returned
  /\ fr[1].op = "ewf"
  /\ fr[1].primary_skill \notin DOMAIN skill_registry
  /\ Len(fr[1].tried) = 2
  /\ fr[1].tried[1].result.error = <<"Skill ", fr[1].primary_skill, " not registered">>
  /\ fr[1].result.success
  /\ \E k \in 1..Len(fr[1].log) : fr[1].log[k].ev = "invoke" /\ fr[1].log[k].pos = 1

\* C21: get_scheduler constructs at most one instance, and every call
\* returns the same instance.
C21_SingletonScheduler ==
  /\ global_scheduler.created <= 1
  /\ \A c, d \in Callers :
       ( /\ fr[c].op = "get_scheduler" /\ fr[c].done = "return"
         /\ fr[d].op = "get_scheduler" /\ fr[d].done = "return" ) =>
         fr[c].data = fr[d].data

\* C22: the deadline of a live invocation is its start plus the explicit
\* timeout argument whenever one was given, whatever its value; with none
\* given, plus the budget of the data type (2 for "local"), or 10 for a data
\* type TIMEOUT_CONFIG does not list.
C22_EffectiveTimeout ==
  LET f == fr[1]
  IN  (f.op = "execute" /\ Happened("invoke")) =>
        f.deadline - f.start_time =
          IF f.arg_timeout # <<>> THEN f.arg_timeout[1]
          ELSE IF f.data_type = "local" THEN 2
          ELSE 10

\* C23's per-call order: a candidate is invoked only straight after its own
\* cache check, no position of the chain is cache-checked or invoked twice,
\* and a call returns a failure only with every candidate attempted.
CandidateOrder ==
  LET f == fr[1]
  IN  f.op = "ewf" =>
        /\ \A k \in 1..Len(f.log) :
             f.log[k].ev = "invoke" =>
               k > 1 /\ f.log[k - 1].ev = "check" /\ f.log[k - 1].pos = f.log[k].pos
        /\ \A j, k \in 1..Len(f.log) :
             ( /\ f.log[j].ev = f.log[k].ev
               /\ f.log[j].ev \in {"check", "invoke"}
               /\ f.log[j].pos = f.log[k].pos ) => j = k
        /\ (Returned /\ ~f.result.success) =>
             Len(f.tried) = 1 + Len(f.fallback_chain)

\* C23: every execute_with_fallback call, its functions all ending, comes to
\* return a result (success or failure), and keeps the per-call order.
C23_CallReachesDone ==
  /\ []CandidateOrder
  /\ \A n \in 1..MaxCalls :
       (ncalls = n /\ fr[1].op = "ewf" /\ pc[1] # "idle")
         ~> (ncalls = n /\ Returned)

\* The candidates (positions, 1: the primary) of caller 1's call for which
\* this happened.
PositionsOf(what) ==
  { fr[1].log[k].pos + 1 : k \in { j \in 1..Len(fr[1].log) : fr[1].log[j].ev = what } }

\* C24: every cache entry is the payload of a successful invocation: none
\* holds an error value; an entry a call has added or changed is under the
\* fingerprint of a candidate whose function returned within its deadline,
\* and holds what that candidate returned; a candidate that raised or timed
\* out, its function ending late or not, wrote nothing, and counted one
\* error and nothing else.
C24_EntriesFromSuccessfulCalls ==
  LET f == fr[1]
      written == { key \in DOMAIN cache :
                     key \notin DOMAIN f.cache0 \/ cache[key] # f.cache0[key] }
  IN  /\ \A key \in DOMAIN cache : ~IsErrorValue(cache[key].data)
      /\ (f.op = "ewf" /\ pc[1] \in {"ewf_check", "idle"}) =>
           /\ \A key \in written :
                \E k \in PositionsOf("returned") :
                  /\ key = SkillCache_generate_key(CandidateAt(f, k), f.params)
                  /\ k <= Len(f.tried)
                  /\ cache[key].data = f.tried[k].result.data
           /\ stats.errors - f.stats0.errors =
                Cardinality(PositionsOf("timeout") \cup PositionsOf("raised Exception"))
           /\ stats.total_calls - f.stats0.total_calls =
                Cardinality(PositionsOf("returned"))

\* The levels a registration can carry, and a registry with its levels
\* replaced.
Levels == { r[2] : r \in RegInputs }

WithLevels(registry, lv) ==
  [n \in DOMAIN registry |-> [registry[n] EXCEPT !.level = lv[n]]]

\* C25: the level a skill is registered with influences nothing.  Whatever
\* levels the registered skills carried instead, the same names would be
\* registered and every one of them would be run with the same function
\* and the same data type; the step that resolves a candidate takes the
\* candidate from the call's primary and fallback list alone and gives the
\* frame what any other levels would give it; and every success costs 1 if
\* it was live and 0 if it came from the cache.
C25_LevelInfluencesNothing ==
  /\ [](\A lv \in [DOMAIN skill_registry -> Levels] :
          \A n \in DOMAIN skill_registry :
            SkillArgs(WithLevels(skill_registry, lv), n) = SkillArgs(skill_registry, n))
  /\ [](\A k \in 1..Len(fr[1].tried) :
          fr[1].tried[k].result.success =>
            fr[1].tried[k].result.cost =
              IF fr[1].tried[k].result.from_cache THEN 0 ELSE 1)
  /\ [][ (pc[1] = "resolve" /\ pc'[1] = "ex_get") =>
           /\ fr'[1].skill_name = CandidateAt(fr[1], fr[1].i + 1)
           /\ \A lv \in [DOMAIN skill_registry -> Levels] :
                LET a == SkillArgs(WithLevels(skill_registry, lv), fr'[1].skill_name)
                IN  fr'[1].func = a.func /\ fr'[1].data_type = a.data_type ]_vars

\* The primary, registered at level 2, was tried first and served the call
\* live at cost 1, with a skill registered at level 1 next in the list.
C25_Witness ==
  LET f == fr[1]
  IN  /\ f.op = "ewf" /\ Returned
      /\ Len(f.tried) = 1 /\ Len(f.fallback_chain) >= 1
      /\ {f.primary_skill, f.fallback_chain[1]} \subseteq DOMAIN skill_registry
      /\ skill_registry[f.primary_skill].level = 2
      /\ skill_registry[f.fallback_chain[1]].level = 1
      /\ f.result.success /\ ~f.result.from_cache /\ f.result.cost = 1

\* The candidates of caller 1's call, among those that have returned, whose
\* name is registered: the execute calls that have returned.
ExecutesReturned ==
  { k \in 1..Len(fr[1].tried) : fr[1].tried[k].name \in DOMAIN skill_registry }

\* C26: with one caller, between two candidates of a call the counters have
\* grown by exactly the execute calls that have returned: cache_hits by
\* those served from the cache, total_calls by those that succeeded live,
\* errors by those that failed, so each of them added one to exactly one
\* counter; a name that is not registered added nothing.
C26_OneCounterPerExecute ==
  LET f == fr[1]
      d(counter) == stats[counter] - f.stats0[counter]
      hits   == { k \in ExecutesReturned : f.tried[k].result.from_cache }
      lives  == { k \in ExecutesReturned :
                    f.tried[k].result.success /\ ~f.tried[k].result.from_cache }
      failed == { k \in ExecutesReturned : ~f.tried[k].result.success }
  IN  (f.op = "ewf" /\ pc[1] \in {"ewf_check", "resolve", "idle"}) =>
        /\ d("cache_hits") = Cardinality(hits)
        /\ d("total_calls") = Cardinality(lives)
        /\ d("errors") = Cardinality(failed)
        /\ d("cache_hits") + d("total_calls") + d("errors")
             = Cardinality(ExecutesReturned)
        /\ \A k \in 1..Len(f.tried) :
             k \notin ExecutesReturned =>
               f.tried[k].result = ResultNotRegistered(f.tried[k].name)

\* A call has returned after three candidates: one not registered, one that
\* failed, one that was served; the counters have grown by two.
C26_Witness ==
  LET f == fr[1]
  IN  /\ f.op = "ewf" /\ Returned /\ Len(f.tried) = 3
      /\ Cardinality(ExecutesReturned) = 2
      /\ \E k \in ExecutesReturned : ~f.tried[k].result.success
      /\ f.tried[3].result.success
      /\ (stats.cache_hits + stats.total_calls + stats.errors)
           - (f.stats0.cache_hits + f.stats0.total_calls + f.stats0.errors) = 2

\* C27: a None payload is stored and never served.  An execute whose
\* function returned None in time has left an entry holding None under the
\* call's fingerprint; an execute that finds such an entry under its
\* fingerprint, fresh or not, takes it as a miss and invokes the function,
\* and when the function returns in time the call is a live success that
\* raises total_calls by one and cache_hits not at all.
C27_NoneIsNeverServed ==
  LET f == fr[1]
  IN  /\ ( /\ f.op = "execute" /\ Returned /\ Happened("returned")
           /\ f.result.data = PyNone ) =>
           /\ CallKey \in DOMAIN cache
           /\ cache[CallKey].data = PyNone
      /\ ( /\ f.op = "execute" /\ Len(f.log) >= 1
           /\ CallKey \in DOMAIN f.cache0
           /\ f.cache0[CallKey].data = PyNone ) =>
           /\ ~Happened("hit")
           /\ Happened("invoke")
           /\ (Returned /\ Happened("returned")) =>
                /\ f.result.success /\ ~f.result.from_cache
                /\ stats.total_calls = f.stats0.total_calls + 1
                /\ stats.cache_hits = f.stats0.cache_hits

\* A call whose function returned None was followed at the same instant by
\* a call with the same name, params and data type, which invoked the
\* function again and returned live.
C27_Witness ==
  LET f == fr[1]
  IN  /\ f.op = "execute" /\ Returned /\ Happened("returned")
      /\ f.prev.live /\ f.prev.data = PyNone
      /\ f.prev.skill_name = f.skill_name /\ f.prev.params = f.params
      /\ f.prev.data_type = f.data_type
      /\ f.start_time = f.prev.end_time
      /\ CallKey \in DOMAIN f.cache0 /\ f.cache0[CallKey].data = PyNone
      /\ ~f.result.from_cache
      /\ stats.total_calls = 2 /\ stats.cache_hits = 0

\* C28: expiry is judged by the data type of the read.  A get with data
\* type "stock_price" (TTL 60) of an entry aged 60 or more and less than
\* 300, which the same get with a data type of TTL 300 would have returned
\* as fresh, returns None and removes the entry, so that a get with the
\* data type of TTL 300 that follows returns None as well.
C28_ExpiryByReadType ==
  LET f   == fr[1]
      age == f.start_time - f.cache0[CallKey].timestamp
  IN  ( /\ CacheOp("get")
        /\ f.data_type = "stock_price"
        /\ CallKey \in DOMAIN f.cache0
        /\ f.cache0[CallKey].data # PyNone
        /\ age >= 60 /\ age < 300 ) =>
        /\ SkillCache_get(f.cache0, f.skill_name, f.params, "default",
                          f.start_time).value = f.cache0[CallKey].data
        /\ f.data = PyNone
        /\ CallKey \notin DOMAIN cache
        /\ SkillCache_get(cache, f.skill_name, f.params, "default", now).value
             = PyNone

\* An entry written at 0 was read as "stock_price" at 60, its last entry of
\* the cache: the read returned None and left the cache empty.
C28_Witness ==
  /\ CacheOp("get")
  /\ fr[1].data_type = "stock_price"
  /\ CallKey \in DOMAIN fr[1].cache0
  /\ fr[1].cache0[CallKey].data # PyNone
  /\ fr[1].cache0[CallKey].timestamp = 0
  /\ fr[1].start_time = 60
  /\ fr[1].data = PyNone
  /\ cache = NoEntries

\* C29: registering leaves the cache as it is, and a served entry is served
\* whatever produced it.  A step that changes the registry changes no cache
\* entry; and a call whose primary has, when it is looked up, an entry under
\* its fingerprint that holds a payload younger than the TTL of the data
\* type now registered is a cache hit: the function now registered is not
\* invoked and the call returns the entry's payload.
C29_RegistrationKeepsCache ==
  /\ [][ skill_registry' # skill_registry => cache' = cache ]_vars
  /\ [](LET f   == fr[1]
            key == SkillCache_generate_key(f.primary_skill, f.params)
        IN  ( /\ f.op = "ewf" /\ f.i = 0 /\ Len(f.log) >= 1
              /\ key \in DOMAIN f.cache0
              /\ f.cache0[key].data # PyNone
              /\ f.start_time - f.cache0[key].timestamp
                   < TtlOf(skill_registry[f.primary_skill].data_type) ) =>
              /\ Happened("hit")
              /\ ~Happened("invoke")
              /\ Returned => /\ f.result.success
                             /\ f.result.from_cache
                             /\ f.result.data = f.cache0[key].data)

\* The primary is registered with f2, its entry holds what f1 returned, and
\* the call returned that payload as a hit.
C29_Witness ==
  LET f   == fr[1]
      key == SkillCache_generate_key(f.primary_skill, f.params)
  IN  /\ f.op = "ewf" /\ Returned /\ Len(f.tried) = 1
      /\ f.primary_skill \in DOMAIN skill_registry
      /\ skill_registry[f.primary_skill].func = "f2"
      /\ Serializable(f.params)
      /\ key \in DOMAIN f.cache0
      /\ f.cache0[key].data = FuncData("f1", f.params)
      /\ f.result.from_cache
      /\ f.result.data = FuncData("f1", f.params)
      /\ ~Happened("invoke")

\* C30: cache entries are kept per skill name.  Two names never share a
\* fingerprint for the same params; a step that writes an entry is the
\* store of a candidate's live result and writes under that candidate's
\* name, leaving what is stored under any other name with the same params
\* as it was; and a step that finds a hit has read the payload stored under
\* the candidate's own name.
C30_EntriesPerSkillName ==
  /\ [](\A n, m \in Names : \A p \in { q \in ParamSet : Serializable(q) } :
          n # m => SkillCache_generate_key(n, p) # SkillCache_generate_key(m, p))
  /\ [][ \A key \in DOMAIN cache' :
           (key \notin DOMAIN cache \/ cache'[key] # cache[key]) =>
             /\ pc[1] = "ex_set"
             /\ fr[1].skill_name = Candidate(fr[1])
             /\ key = SkillCache_generate_key(fr[1].skill_name, fr[1].params)
             /\ cache'[key].data = fr[1].data
             /\ \A m \in Names \ {fr[1].skill_name} :
                  LET other == SkillCache_generate_key(m, fr[1].params)
                  IN  /\ other \in DOMAIN cache' <=> other \in DOMAIN cache
                      /\ other \in DOMAIN cache => cache'[other] = cache[other] ]_vars
  /\ [][ (pc[1] = "ex_get" /\ pc'[1] = "hit_load") =>
           LET key == SkillCache_generate_key(Candidate(fr[1]), fr[1].params)
           IN  /\ key \in DOMAIN cache
               /\ fr'[1].data = cache[key].data ]_vars

\* A call invoked a skill live, and returned its result, while the cache
\* held an entry less than 60 s old for another name with the same params.
C30_Witness ==
  LET f == fr[1]
  IN  /\ f.op = "ewf" /\ Returned /\ Len(f.tried) = 1
      /\ f.result.success /\ ~f.result.from_cache
      /\ Serializable(f.params)
      /\ \E m \in Names \ {f.primary_skill} :
           LET other == SkillCache_generate_key(m, f.params)
           IN  /\ other \in DOMAIN f.cache0
               /\ f.cache0[other].data # PyNone
               /\ f.start_time - f.cache0[other].timestamp < 60
               /\ other \in DOMAIN cache
               /\ cache[other] = f.cache0[other]

==========================================================================
